---- MODULE Spec2Model ----
(***************************************************************************)
(* Log_Report_Generator.py: a run-once batch script.  It unzips a log      *)
(* archive, concatenates the daily TSV logs, converts the result to CSV,   *)
(* drops the rows whose NUM_SUBMITTED_REQUESTS is not a number, keeps the  *)
(* rows of a date window, aggregates per USER_ID, left-joins a lookup      *)
(* table, writes finalReport.csv and removes the intermediate files.       *)
(*                                                                         *)
(* Text is a sequence of character codes (ASCII), compared as Python       *)
(* compares str values.  Only the three columns the script reads are kept  *)
(* of a log row: USER_ID, WHEN_CREATED, NUM_SUBMITTED_REQUESTS.  Floats    *)
(* are held in tenths; the field texts of the model carry at most one      *)
(* fractional digit.                                                       *)
(***************************************************************************)
EXTENDS Integers, Sequences, FiniteSets, TLC

VARIABLES
    pc,                       \* the statement the script is about to run
    error,                    \* the exception that ended the run, or "none"
    startDate,                \* sys.argv[4]
    endDate,                  \* sys.argv[5]
    lookupFile,               \* the rows of the file csvLookUpTable names
    zipLogs,                  \* the daily logs inside the archive zipLogFiles
    zipLogFilesExtract,       \* the extraction folder: the files it holds
    mergedLogFile,            \* merged.tsv
    csvLogFile,               \* mergedCSV.csv
    csvLogFileContent,        \* the DataFrame of steps 4 and 5
    csvLogFileContentTrimmed, \* the DataFrame of step 6
    dfFinalReport,            \* the DataFrame of step 8
    dfCPFUsage,               \* the DataFrame of step 9
    finalReport,              \* finalReport.csv
    warned                    \* the cleanup's except branch has printed

vars == <<pc, error, startDate, endDate, lookupFile, zipLogs,
          zipLogFilesExtract, mergedLogFile, csvLogFile, csvLogFileContent,
          csvLogFileContentTrimmed, dfFinalReport, dfCPFUsage, finalReport,
          warned>>

(***************************************************************************)
(* Bounds of the model.                                                    *)
(***************************************************************************)
\* data rows over all log files, in the runs that vary NUM_SUBMITTED_REQUESTS
MaxAggRecords == 2
\* data rows over all log files, in the runs that vary the date window
MaxFilterRecords == 2
\* data rows over all log files, in the runs that vary the lookup table
MaxJoinRecords == 2
\* rows of the lookup table
MaxDirRows == 2

(***************************************************************************)
(* Text.                                                                   *)
(***************************************************************************)
Space == <<32>>
Dash == <<45>>
Dot == <<46>>

IsDigit(c) == c \in 48..57

DigitChar(d) == 48 + d

\* str(n) for a natural number
RECURSIVE IntText(_)
IntText(n) ==
    IF n < 10 THEN <<DigitChar(n)>>
    ELSE IntText(n \div 10) \o <<DigitChar(n % 10)>>

\* n written with at least w digits, zero-padded on the left
RECURSIVE Padded(_, _)
Padded(n, w) ==
    IF Len(IntText(n)) >= w THEN IntText(n)
    ELSE <<DigitChar(0)>> \o Padded(n, w - 1)

\* Python's a <= b on str: by code point, a proper prefix first
RECURSIVE StrLe(_, _)
StrLe(a, b) ==
    IF a = <<>> THEN TRUE
    ELSE IF b = <<>> THEN FALSE
    ELSE IF Head(a) # Head(b) THEN Head(a) < Head(b)
    ELSE StrLe(Tail(a), Tail(b))

StrGe(a, b) == StrLe(b, a)

\* the index of the first c in s, or 0
RECURSIVE IndexOf(_, _)
IndexOf(s, c) ==
    IF s = <<>> THEN 0
    ELSE IF Head(s) = c THEN 1
    ELSE LET i == IndexOf(Tail(s), c) IN IF i = 0 THEN 0 ELSE i + 1

\* s.split(' ')[0]
FirstField(s) ==
    LET i == IndexOf(s, 32) IN IF i = 0 THEN s ELSE SubSeq(s, 1, i - 1)

AllDigits(s) == s # <<>> /\ \A i \in 1..Len(s) : IsDigit(s[i])

\* the value of a digit string
RECURSIVE DigitsValue(_)
DigitsValue(s) ==
    IF s = <<>> THEN 0
    ELSE 10 * DigitsValue(SubSeq(s, 1, Len(s) - 1)) + (s[Len(s)] - 48)

(***************************************************************************)
(* Numbers as pandas reads them.                                           *)
(***************************************************************************)
NaN == [kind |-> "nan", text |-> <<>>, val |-> 0]

IntCell(n) == [kind |-> "int", text |-> <<>>, val |-> n]

\* a float, held in tenths
FloatCell(t) == [kind |-> "float", text |-> <<>>, val |-> t]

StrCell(s) == [kind |-> "str", text |-> s, val |-> 0]

\* a decimal literal: digits, with at most one "." among them
IsNumericText(s) ==
    LET i == IndexOf(s, 46)
        ip == IF i = 0 THEN s ELSE SubSeq(s, 1, i - 1)
        fp == IF i = 0 THEN <<>> ELSE SubSeq(s, i + 1, Len(s))
    IN  /\ ip = <<>> \/ AllDigits(ip)
        /\ fp = <<>> \/ AllDigits(fp)
        /\ ip # <<>> \/ fp # <<>>

\* float(s) in tenths, for a decimal literal
TenthsOf(s) ==
    LET i == IndexOf(s, 46)
        ip == IF i = 0 THEN s ELSE SubSeq(s, 1, i - 1)
        fp == IF i = 0 THEN <<>> ELSE SubSeq(s, i + 1, Len(s))
    IN  10 * DigitsValue(ip) + (IF fp = <<>> THEN 0 ELSE fp[1] - 48)

\* repr of a float held in tenths: "2.5", "1.0"
FloatText(t) == IntText(t \div 10) \o Dot \o <<DigitChar(t % 10)>>

\* the dtype pandas' parser gives a column of field texts
InferDtype(texts) ==
    IF texts = <<>> THEN "object"
    ELSE IF \A i \in 1..Len(texts) : AllDigits(texts[i]) THEN "int64"
    ELSE IF \A i \in 1..Len(texts) :
                texts[i] = <<>> \/ IsNumericText(texts[i]) THEN "float64"
    ELSE "object"

\* a field text read into a column of the given dtype
ReadCell(dtype, s) ==
    IF dtype = "int64" THEN IntCell(DigitsValue(s))
    ELSE IF s = <<>> THEN NaN
    ELSE IF dtype = "float64" THEN FloatCell(TenthsOf(s))
    ELSE StrCell(s)

\* a cell written by DataFrame.to_csv (NaN is written as the empty field)
CellText(c) ==
    IF c.kind = "int" THEN IntText(c.val)
    ELSE IF c.kind = "float" THEN FloatText(c.val)
    ELSE c.text

\* pd.to_numeric(cell, errors='coerce').notnull()
ToNumericNotNull(c) ==
    \/ c.kind \in {"int", "float"}
    \/ c.kind = "str" /\ IsNumericText(c.text)

(***************************************************************************)
(* Files of lines.  A line keeps the columns USER_ID, WHEN_CREATED and     *)
(* NUM_SUBMITTED_REQUESTS as text.                                         *)
(***************************************************************************)
Line(u, w, n) ==
    [blank |-> FALSE, USER_ID |-> u, WHEN_CREATED |-> w,
     NUM_SUBMITTED_REQUESTS |-> n]

BlankLine ==
    [blank |-> TRUE, USER_ID |-> <<>>, WHEN_CREATED |-> <<>>,
     NUM_SUBMITTED_REQUESTS |-> <<>>]

\* the column header every daily log starts with
HeaderLine ==
    Line(<<85, 83, 69, 82, 95, 73, 68>>,
         <<87, 72, 69, 78, 95, 67, 82, 69, 65, 84, 69, 68>>,
         <<78, 85, 77, 95, 83, 85, 66, 77, 73, 84, 84, 69, 68, 95, 82, 69, 81, 85, 69, 83, 84, 83>>)

NoFile == [exists |-> FALSE, lines |-> <<>>]

File(ls) == [exists |-> TRUE, lines |-> ls]

RECURSIVE Flatten(_)
Flatten(ss) == IF ss = <<>> THEN <<>> ELSE Head(ss) \o Flatten(Tail(ss))

SeqToSet(s) == {s[i] : i \in 1..Len(s)}

(***************************************************************************)
(* Step 2: the daily logs are written one after the other into merged.tsv, *)
(* each followed by "\n\n".  order is the order glob.glob returns them in. *)
(***************************************************************************)
MergeLines(files, order) ==
    Flatten([i \in 1..Len(order) |->
                files[order[i]] \o <<BlankLine, BlankLine>>])

(***************************************************************************)
(* Steps 3 and 4: pd.read_table / pd.read_csv and DataFrame.to_csv.  The   *)
(* first line that is not blank names the columns, the other lines that    *)
(* are not blank are the rows, labelled 0, 1, ... (a RangeIndex).          *)
(***************************************************************************)
NonBlank(lines) == SelectSeq(lines, LAMBDA l : ~l.blank)

\* pandas raises EmptyDataError on a file without a header line
ReadRaises(lines) == NonBlank(lines) = <<>>

ReadFrame(lines) ==
    LET data == Tail(NonBlank(lines))
        dtype == InferDtype([i \in 1..Len(data) |->
                                data[i].NUM_SUBMITTED_REQUESTS])
    IN  [dtype |-> dtype,
         rows |-> [i \in 1..Len(data) |->
                     [idx |-> i - 1,
                      USER_ID |-> data[i].USER_ID,
                      WHEN_CREATED |-> data[i].WHEN_CREATED,
                      NUM_SUBMITTED_REQUESTS |->
                          ReadCell(dtype, data[i].NUM_SUBMITTED_REQUESTS)]]]

FrameLines(df) ==
    <<HeaderLine>> \o
    [i \in 1..Len(df.rows) |->
        Line(df.rows[i].USER_ID, df.rows[i].WHEN_CREATED,
             CellText(df.rows[i].NUM_SUBMITTED_REQUESTS))]

EmptyFrame == [dtype |-> "object", rows |-> <<>>]

(***************************************************************************)
(* Step 5: the rows whose NUM_SUBMITTED_REQUESTS pd.to_numeric turns into  *)
(* a number are kept, and the column is cast with astype(int).             *)
(***************************************************************************)
NumericRows(df) ==
    [df EXCEPT !.rows = SelectSeq(df.rows,
        LAMBDA r : ToNumericNotNull(r.NUM_SUBMITTED_REQUESTS))]

\* int(s) of a str that is not an integer literal raises ValueError
AsTypeIntRaises(df) ==
    \E i \in 1..Len(df.rows) :
        /\ df.rows[i].NUM_SUBMITTED_REQUESTS.kind = "str"
        /\ ~AllDigits(df.rows[i].NUM_SUBMITTED_REQUESTS.text)

\* a float is truncated, a str of digits is parsed
AsTypeIntCell(c) ==
    IF c.kind = "int" THEN c
    ELSE IF c.kind = "float" THEN IntCell(c.val \div 10)
    ELSE IntCell(DigitsValue(c.text))

AsTypeInt(df) ==
    [dtype |-> "int64",
     rows |-> [i \in 1..Len(df.rows) |->
                 [df.rows[i] EXCEPT !.NUM_SUBMITTED_REQUESTS =
                     AsTypeIntCell(df.rows[i].NUM_SUBMITTED_REQUESTS)]]]

(***************************************************************************)
(* Step 6: the date window.  Both comparisons are between str values; the  *)
(* second mask is computed on csvLogFileContent and applied by label to    *)
(* the rows the first comparison kept.                                     *)
(***************************************************************************)
DayOf(r) == FirstField(r.WHEN_CREATED)

\* FromStart with > in place of >=
AfterStart(day, start) == ~StrLe(day, start)

FromStart(day, start) == StrGe(day, start)

UpToEnd(day, end) == StrLe(day, end)

RowByLabel(df, label) ==
    df.rows[CHOOSE i \in 1..Len(df.rows) : df.rows[i].idx = label]

TrimToRange(df, start, end) ==
    LET first == SelectSeq(df.rows, LAMBDA r : FromStart(DayOf(r), start))
        mask == [label \in {df.rows[i].idx : i \in 1..Len(df.rows)} |->
                    UpToEnd(DayOf(RowByLabel(df, label)), end)]
    IN  [df EXCEPT !.rows = SelectSeq(first, LAMBDA r : mask[r.idx])]

(***************************************************************************)
(* Step 7: the three series.  groupby sorts its keys; value_counts sorts   *)
(* by count, largest first, equal counts in order of first appearance.     *)
(***************************************************************************)
RECURSIVE SortKeys(_)
SortKeys(S) ==
    IF S = {} THEN <<>>
    ELSE LET m == CHOOSE x \in S : \A y \in S : StrLe(x, y)
         IN  <<m>> \o SortKeys(S \ {m})

UserIds(df) == {df.rows[i].USER_ID : i \in 1..Len(df.rows)}

RowsOf(df, u) == SelectSeq(df.rows, LAMBDA r : r.USER_ID = u)

RECURSIVE SumRequests(_)
SumRequests(rows) ==
    IF rows = <<>> THEN 0
    ELSE Head(rows).NUM_SUBMITTED_REQUESTS.val + SumRequests(Tail(rows))

\* the distinct values of a sequence, in order of first appearance
RECURSIVE Unique(_)
Unique(s) ==
    IF s = <<>> THEN <<>>
    ELSE LET rest == Unique(SubSeq(s, 1, Len(s) - 1))
         IN  IF s[Len(s)] \in SeqToSet(rest) THEN rest
             ELSE Append(rest, s[Len(s)])

\* a stable sort of the keys by count, largest first
RECURSIVE ByCount(_, _)
ByCount(keys, df) ==
    IF keys = <<>> THEN <<>>
    ELSE LET top == CHOOSE i \in 1..Len(keys) :
                      /\ \A j \in 1..Len(keys) :
                            Len(RowsOf(df, keys[j])) <= Len(RowsOf(df, keys[i]))
                      /\ \A j \in 1..(i - 1) :
                            Len(RowsOf(df, keys[j])) < Len(RowsOf(df, keys[i]))
         IN  <<keys[top]>> \o
             ByCount(SubSeq(keys, 1, top - 1) \o
                     SubSeq(keys, top + 1, Len(keys)), df)

seriesJobSubmissions(df) ==
    LET keys == ByCount(Unique([i \in 1..Len(df.rows) |->
                                   df.rows[i].USER_ID]), df)
    IN  [i \in 1..Len(keys) |->
            [USER_ID |-> keys[i], Jobs |-> Len(RowsOf(df, keys[i]))]]

\* the mean is kept as the fraction sum / count
seriesAveragePerJob(df) ==
    LET keys == SortKeys(UserIds(df))
    IN  [i \in 1..Len(keys) |->
            [USER_ID |-> keys[i],
             num |-> SumRequests(RowsOf(df, keys[i])),
             den |-> Len(RowsOf(df, keys[i]))]]

seriesTotalAddresses(df) ==
    LET keys == SortKeys(UserIds(df))
    IN  [i \in 1..Len(keys) |->
            [USER_ID |-> keys[i],
             Total |-> SumRequests(RowsOf(df, keys[i]))]]

(***************************************************************************)
(* Step 8: DataFrame.round(1) and the two inner merges on USER_ID.         *)
(***************************************************************************)
\* num / den rounded to one decimal, half to even, in tenths
RoundOneDecimal(num, den) ==
    LET q == (10 * num) \div den
        r == (10 * num) % den
    IN  IF 2 * r < den THEN q
        ELSE IF 2 * r > den THEN q + 1
        ELSE IF q % 2 = 0 THEN q ELSE q + 1

dfAveragePerJobRounded(df) ==
    LET s == seriesAveragePerJob(df)
    IN  [i \in 1..Len(s) |->
            [USER_ID |-> s[i].USER_ID,
             Avg |-> RoundOneDecimal(s[i].num, s[i].den)]]

\* left.merge(right): the pairs of rows that share USER_ID, in the order of
\* left, the rows of right that match one row of left in the order of right
InnerMerge(left, right) ==
    Flatten([i \in 1..Len(left) |->
        LET m == SelectSeq(right, LAMBDA d : d.USER_ID = left[i].USER_ID)
        IN  [j \in 1..Len(m) |-> <<left[i], m[j]>>]])

WithJobs(t, j) == [USER_ID |-> t.USER_ID, Total |-> t.Total, Jobs |-> j.Jobs]

WithAvg(r, a) ==
    [USER_ID |-> r.USER_ID, Total |-> r.Total, Jobs |-> r.Jobs, Avg |-> a.Avg]

\* TotalsAndJobs merged from the value_counts side
JobsAndTotals(df) ==
    LET m == InnerMerge(seriesJobSubmissions(df), seriesTotalAddresses(df))
    IN  [i \in 1..Len(m) |-> WithJobs(m[i][2], m[i][1])]

TotalsAndJobs(df) ==
    LET m == InnerMerge(seriesTotalAddresses(df), seriesJobSubmissions(df))
    IN  [i \in 1..Len(m) |-> WithJobs(m[i][1], m[i][2])]

FinalReportFrame(df) ==
    LET m == InnerMerge(TotalsAndJobs(df), dfAveragePerJobRounded(df))
    IN  [i \in 1..Len(m) |-> WithAvg(m[i][1], m[i][2])]

(***************************************************************************)
(* Step 9: the left merge with the lookup table.  A row of the report      *)
(* without a lookup row gets NaN in the lookup columns, written here as    *)
(* the empty text, which is what to_csv writes for it.                     *)
(***************************************************************************)
WithDirectory(r, d) ==
    [USER_ID |-> r.USER_ID, Total |-> r.Total, Jobs |-> r.Jobs, Avg |-> r.Avg,
     User_Name |-> d.User_Name, Email |-> d.Email, Org |-> d.Org]

NoEntry(u) == [USER_ID |-> u, User_Name |-> <<>>, Email |-> <<>>, Org |-> <<>>]

\* LeftMerge without how='left': the rows without a lookup row are lost
DefaultMerge(left, right) ==
    LET m == InnerMerge(left, right)
    IN  [i \in 1..Len(m) |-> WithDirectory(m[i][1], m[i][2])]

LeftMerge(left, right) ==
    Flatten([i \in 1..Len(left) |->
        LET m == SelectSeq(right, LAMBDA d : d.USER_ID = left[i].USER_ID)
        IN  IF m = <<>> THEN <<WithDirectory(left[i], NoEntry(left[i].USER_ID))>>
            ELSE [j \in 1..Len(m) |-> WithDirectory(left[i], m[j])]])

(***************************************************************************)
(* Step 10: the lines DataFrame.to_csv writes: the column names, then one  *)
(* line per row.                                                           *)
(***************************************************************************)
ReportLine(u, t, j, a, n, e, o) ==
    [USER_ID |-> u, Total |-> t, Jobs |-> j, Avg |-> a,
     User_Name |-> n, Email |-> e, Org |-> o]

ReportHeader ==
    ReportLine(<<85, 83, 69, 82, 95, 73, 68>>, <<84, 111, 116, 97, 108>>,
               <<74, 111, 98, 115>>, <<65, 118, 103>>,
               <<85, 115, 101, 114, 95, 78, 97, 109, 101>>,
               <<69, 109, 97, 105, 108>>, <<79, 114, 103>>)

ReportLines(df) ==
    <<ReportHeader>> \o
    [i \in 1..Len(df) |->
        ReportLine(df[i].USER_ID, IntText(df[i].Total), IntText(df[i].Jobs),
                   FloatText(df[i].Avg), df[i].User_Name, df[i].Email,
                   df[i].Org)]

(***************************************************************************)
(* The inputs of a run: the archive, the date window, the lookup table.    *)
(***************************************************************************)
UserText(k) == <<117>> \o IntText(k)

\* a date as the documentation asks for it: '2019-08-25'
DateText(y, m, d) == Padded(y, 4) \o Dash \o Padded(m, 2) \o Dash \o Padded(d, 2)

\* a date without the leading zeros
UnpaddedDateText(y, m, d) == IntText(y) \o Dash \o IntText(m) \o Dash \o IntText(d)

\* WHEN_CREATED: 'YYYY-MM-DD 00:00:00.000'
When(day) == day \o Space \o <<48, 48, 58, 48, 48, 58, 48, 48, 46, 48, 48, 48>>

AugustLast == DateText(2019, 8, 31)

SeptemberFirst == DateText(2019, 9, 1)

LogDays == {AugustLast, SeptemberFirst}

BadDates == {UnpaddedDateText(2019, 9, 1), <<116, 111, 100, 97, 121>>}

LogUsers == {UserText(1), UserText(2)}

NumTexts == {<<49>>, <<50>>, <<50, 46, 53>>, <<>>}

AggRows == {Line(u, When(SeptemberFirst), n) : u \in LogUsers, n \in NumTexts}

FilterRows == {Line(u, When(d), <<50>>) : u \in LogUsers, d \in LogDays}

JoinRows == {Line(UserText(1), When(SeptemberFirst), <<50>>),
             Line(UserText(2), When(SeptemberFirst), <<51>>)}

SeqsUpTo(S, n) == UNION {[1..k -> S] : k \in 0..n}

LogFile(rows) == <<HeaderLine>> \o rows

\* one or two daily logs holding at most n rows together
Archives(Rows, n) ==
    UNION {{<<LogFile(s)>>} \cup
           {<<LogFile(SubSeq(s, 1, k)), LogFile(SubSeq(s, k + 1, Len(s)))>> :
                k \in 0..Len(s)} : s \in SeqsUpTo(Rows, n)}

DirEntry(u, n, e, o) == [USER_ID |-> u, User_Name |-> n, Email |-> e, Org |-> o]

DirEntries ==
    {DirEntry(UserText(1), <<65, 108, 105, 99, 101>>,
              <<97, 64, 120, 46, 99, 111, 109>>, <<79, 114, 103, 65>>),
     DirEntry(UserText(1), <<65, 108, 105, 99, 105, 97>>,
              <<97, 108, 64, 120, 46, 99, 111, 109>>, <<79, 114, 103, 66>>),
     DirEntry(UserText(3), <<67, 97, 114, 111, 108>>,
              <<99, 64, 120, 46, 99, 111, 109>>, <<79, 114, 103, 67>>)}

AliceOnly ==
    File(<<DirEntry(UserText(1), <<65, 108, 105, 99, 101>>,
                    <<97, 64, 120, 46, 99, 111, 109>>, <<79, 114, 103, 65>>)>>)

RunInput(logs, start, end, lookup) ==
    [logs |-> logs, start |-> start, end |-> end, lookup |-> lookup]

\* the runs that vary NUM_SUBMITTED_REQUESTS
AggInputs ==
    {RunInput(a, AugustLast, SeptemberFirst, AliceOnly) :
        a \in Archives(AggRows, MaxAggRecords)}

\* the runs that vary the date window
FilterInputs ==
    {RunInput(a, w[1], w[2], AliceOnly) :
        a \in Archives(FilterRows, MaxFilterRecords),
        w \in (LogDays \X LogDays) \cup (BadDates \X LogDays)
                 \cup (LogDays \X BadDates)}

\* the runs that vary the lookup table; its file may be missing
JoinInputs ==
    {RunInput(a, AugustLast, SeptemberFirst, d) :
        a \in Archives(JoinRows, MaxJoinRecords),
        d \in {File(ls) : ls \in SeqsUpTo(DirEntries, MaxDirRows)} \cup {NoFile}}

\* an archive whose only log is an empty file
EmptyLogInputs == {RunInput(<<<<>>>>, AugustLast, SeptemberFirst, AliceOnly)}

RunInputs == AggInputs \cup FilterInputs \cup JoinInputs \cup EmptyLogInputs

NoFolder == [exists |-> FALSE, files |-> <<>>]

Init ==
    \E in \in RunInputs :
        /\ pc = "unzip"
        /\ error = "none"
        /\ startDate = in.start
        /\ endDate = in.end
        /\ lookupFile = in.lookup
        /\ zipLogs = in.logs
        /\ zipLogFilesExtract = NoFolder
        /\ mergedLogFile = NoFile
        /\ csvLogFile = NoFile
        /\ csvLogFileContent = EmptyFrame
        /\ csvLogFileContentTrimmed = EmptyFrame
        /\ dfFinalReport = <<>>
        /\ dfCPFUsage = <<>>
        /\ finalReport = NoFile
        /\ warned = FALSE

(***************************************************************************)
(* The statements of the script.  An exception nothing catches ends the    *)
(* run: pc = "failed", with the exception's name in error.                 *)
(***************************************************************************)
Raise(e) == pc' = "failed" /\ error' = e

Goto(p) == pc' = p /\ error' = error

Arguments == <<startDate, endDate, lookupFile, zipLogs>>

Frames == <<csvLogFileContent, csvLogFileContentTrimmed, dfFinalReport, dfCPFUsage>>

\* Step 1: zipfile.ZipFile(zipLogFiles).extractall(zipLogFilesExtract)
Unzip ==
    /\ pc = "unzip"
    /\ \/ /\ zipLogFilesExtract' = [exists |-> TRUE, files |-> zipLogs]
          /\ Goto("merge")
       \/ /\ Raise("BadZipFile")
          /\ UNCHANGED zipLogFilesExtract
    /\ UNCHANGED <<Arguments, Frames, mergedLogFile, csvLogFile, finalReport, warned>>

Orders(n) == {p \in [1..n -> 1..n] : \A i, j \in 1..n : p[i] = p[j] => i = j}

\* Step 2: the loop over glob.glob(subFolder + '\\*.tsv')
Merge ==
    /\ pc = "merge"
    /\ \/ \E order \in Orders(Len(zipLogFilesExtract.files)) :
            /\ mergedLogFile' = File(MergeLines(zipLogFilesExtract.files, order))
            /\ Goto("convert")
       \/ /\ Raise("OSError")
          /\ UNCHANGED mergedLogFile
    /\ UNCHANGED <<Arguments, Frames, zipLogFilesExtract, csvLogFile, finalReport, warned>>

\* Step 3: pd.read_table(mergedLogFile).to_csv(csvLogFile)
Convert ==
    /\ pc = "convert"
    /\ \/ /\ ReadRaises(mergedLogFile.lines)
          /\ Raise("EmptyDataError")
          /\ UNCHANGED csvLogFile
       \/ /\ ~ReadRaises(mergedLogFile.lines)
          /\ csvLogFile' = File(FrameLines(ReadFrame(mergedLogFile.lines)))
          /\ Goto("read")
       \/ /\ Raise("OSError")
          /\ UNCHANGED csvLogFile
    /\ UNCHANGED <<Arguments, Frames, zipLogFilesExtract, mergedLogFile, finalReport, warned>>

Files == <<zipLogFilesExtract, mergedLogFile, csvLogFile, finalReport, warned>>

\* Step 4: csvLogFileContent = pd.read_csv(csvLogFile)
Read ==
    /\ pc = "read"
    /\ csvLogFileContent' = ReadFrame(csvLogFile.lines)
    /\ Goto("coerce")
    /\ UNCHANGED <<Arguments, Files, csvLogFileContentTrimmed, dfFinalReport, dfCPFUsage>>

\* Step 5, first statement: the rows with a number are kept
Coerce ==
    /\ pc = "coerce"
    /\ csvLogFileContent' = NumericRows(csvLogFileContent)
    /\ Goto("astype")
    /\ UNCHANGED <<Arguments, Files, csvLogFileContentTrimmed, dfFinalReport, dfCPFUsage>>

\* Step 5, second statement: NUM_SUBMITTED_REQUESTS.astype(int)
AsType ==
    /\ pc = "astype"
    /\ \/ /\ AsTypeIntRaises(csvLogFileContent)
          /\ Raise("ValueError")
          /\ UNCHANGED csvLogFileContent
       \/ /\ ~AsTypeIntRaises(csvLogFileContent)
          /\ csvLogFileContent' = AsTypeInt(csvLogFileContent)
          /\ Goto("trim")
    /\ UNCHANGED <<Arguments, Files, csvLogFileContentTrimmed, dfFinalReport, dfCPFUsage>>

\* Step 6: the first and last WHEN_CREATED are printed (index[0] of an
\* empty frame raises IndexError), then the rows of the window are kept
Trim ==
    /\ pc = "trim"
    /\ \/ /\ csvLogFileContent.rows = <<>>
          /\ Raise("IndexError")
          /\ UNCHANGED csvLogFileContentTrimmed
       \/ /\ csvLogFileContent.rows # <<>>
          /\ csvLogFileContentTrimmed' =
                 TrimToRange(csvLogFileContent, startDate, endDate)
          /\ Goto("aggregate")
    /\ UNCHANGED <<Arguments, Files, csvLogFileContent, dfFinalReport, dfCPFUsage>>

\* Steps 7 and 8: the three series and their merge
Aggregate ==
    /\ pc = "aggregate"
    /\ dfFinalReport' = FinalReportFrame(csvLogFileContentTrimmed)
    /\ Goto("join")
    /\ UNCHANGED <<Arguments, Files, csvLogFileContent, csvLogFileContentTrimmed, dfCPFUsage>>

\* Step 9: pd.read_csv(csvLookUpTable) and the left merge
Join ==
    /\ pc = "join"
    /\ \/ /\ ~lookupFile.exists
          /\ Raise("FileNotFoundError")
          /\ UNCHANGED dfCPFUsage
       \/ /\ lookupFile.exists
          /\ dfCPFUsage' = LeftMerge(dfFinalReport, lookupFile.lines)
          /\ Goto("export")
    /\ UNCHANGED <<Arguments, Files, csvLogFileContent, csvLogFileContentTrimmed, dfFinalReport>>

Intermediate == <<zipLogFilesExtract, mergedLogFile, csvLogFile>>

\* Step 10: to_csv opens finalReport for writing, which empties it
Export ==
    /\ pc = "export"
    /\ \/ /\ finalReport' = File(<<>>)
          /\ Goto("write")
       \/ /\ Raise("OSError")
          /\ UNCHANGED finalReport
    /\ UNCHANGED <<Arguments, Frames, Intermediate, warned>>

\* Step 10: the next line is written, or the write fails
WriteLine ==
    /\ pc = "write"
    /\ Len(finalReport.lines) < Len(ReportLines(dfCPFUsage))
    /\ \/ /\ finalReport' = File(Append(finalReport.lines,
                 ReportLines(dfCPFUsage)[Len(finalReport.lines) + 1]))
          /\ Goto("write")
       \/ /\ Raise("OSError")
          /\ UNCHANGED finalReport
    /\ UNCHANGED <<Arguments, Frames, Intermediate, warned>>

\* Step 10: every line is written and to_csv returns
CloseReport ==
    /\ pc = "write"
    /\ Len(finalReport.lines) = Len(ReportLines(dfCPFUsage))
    /\ Goto("rm_merged")
    /\ UNCHANGED <<Arguments, Frames, Files>>

\* RemoveMerged without the except branch: the OSError ends the run
RemoveMergedUncaught ==
    /\ pc = "rm_merged"
    /\ \/ /\ mergedLogFile' = NoFile
          /\ Goto("rm_csv")
       \/ /\ UNCHANGED mergedLogFile
          /\ Raise("OSError")
    /\ UNCHANGED <<Arguments, Frames, zipLogFilesExtract, csvLogFile, finalReport, warned>>

\* Step 11: os.remove(mergedLogFile), inside try / except OSError
RemoveMerged ==
    /\ pc = "rm_merged"
    /\ \/ /\ mergedLogFile' = NoFile
          /\ warned' = warned
          /\ Goto("rm_csv")
       \/ /\ warned' = TRUE
          /\ UNCHANGED mergedLogFile
          /\ Goto("complete")
    /\ UNCHANGED <<Arguments, Frames, zipLogFilesExtract, csvLogFile, finalReport>>

\* Step 11: os.remove(csvLogFile)
RemoveCsv ==
    /\ pc = "rm_csv"
    /\ \/ /\ csvLogFile' = NoFile
          /\ warned' = warned
          /\ Goto("rm_tree")
       \/ /\ warned' = TRUE
          /\ UNCHANGED csvLogFile
          /\ Goto("complete")
    /\ UNCHANGED <<Arguments, Frames, zipLogFilesExtract, mergedLogFile, finalReport>>

\* Step 11: shutil.rmtree(zipLogFilesExtract)
RemoveTree ==
    /\ pc = "rm_tree"
    /\ \/ /\ zipLogFilesExtract' = NoFolder
          /\ warned' = warned
       \/ /\ warned' = TRUE
          /\ UNCHANGED zipLogFilesExtract
    /\ Goto("complete")
    /\ UNCHANGED <<Arguments, Frames, mergedLogFile, csvLogFile, finalReport>>

\* print('\nProcessing complete')
Complete ==
    /\ pc = "complete"
    /\ Goto("done")
    /\ UNCHANGED <<Arguments, Frames, Files>>

Next ==
    \/ Unzip
    \/ Merge
    \/ Convert
    \/ Read
    \/ Coerce
    \/ AsType
    \/ Trim
    \/ Aggregate
    \/ Join
    \/ Export
    \/ WriteLine
    \/ CloseReport
    \/ RemoveMerged
    \/ RemoveCsv
    \/ RemoveTree
    \/ Complete

Spec == Init /\ [][Next]_vars

(***************************************************************************)
(* The whole run as a function of its inputs, for the statements that      *)
(* compare two runs: the exception that ends it ("none" if it completes)   *)
(* and the lines of finalReport.csv.                                       *)
(***************************************************************************)
Failure(e) == [error |-> e, lines |-> <<>>]

Outcome(logs, order, start, end, lookup) ==
    LET merged == MergeLines(logs, order)
    IN  IF ReadRaises(merged) THEN Failure("EmptyDataError")
        ELSE
        LET content == NumericRows(ReadFrame(FrameLines(ReadFrame(merged))))
        IN  IF AsTypeIntRaises(content) THEN Failure("ValueError")
            ELSE IF content.rows = <<>> THEN Failure("IndexError")
            ELSE IF ~lookup.exists THEN Failure("FileNotFoundError")
            ELSE [error |-> "none",
                  lines |-> ReportLines(LeftMerge(
                      FinalReportFrame(TrimToRange(AsTypeInt(content), start, end)),
                      lookup.lines))]

(***************************************************************************)
(* Vocabulary of the properties.                                           *)
(***************************************************************************)
\* to_csv has returned
ReportWritten == pc \in {"rm_merged", "rm_csv", "rm_tree", "complete", "done"}

\* step 6 has just run
Trimmed == pc = "aggregate"

\* to_csv has just returned
ReportJustWritten == pc = "rm_merged"

\* the rows of finalReport.csv under its header line
ReportRows == Tail(finalReport.lines)

ReportUsers == {ReportRows[i].USER_ID : i \in 1..Len(ReportRows)}

DaysIn(y, m) ==
    IF m \in {4, 6, 9, 11} THEN 30
    ELSE IF m # 2 THEN 31
    ELSE IF y % 4 = 0 /\ (y % 100 # 0 \/ y % 400 = 0) THEN 29 ELSE 28

YearOf(t) == DigitsValue(SubSeq(t, 1, 4))

MonthOf(t) == DigitsValue(SubSeq(t, 6, 7))

DayOfMonth(t) == DigitsValue(SubSeq(t, 9, 10))

\* t reads as a calendar date written YYYY-MM-DD
ValidDate(t) ==
    /\ Len(t) = 10
    /\ t[5] = 45 /\ t[8] = 45
    /\ \A i \in {1, 2, 3, 4, 6, 7, 9, 10} : IsDigit(t[i])
    /\ MonthOf(t) \in 1..12
    /\ DayOfMonth(t) \in 1..DaysIn(YearOf(t), MonthOf(t))

\* the calendar order of two valid dates
NotAfter(a, b) ==
    \/ YearOf(a) < YearOf(b)
    \/ YearOf(a) = YearOf(b) /\ MonthOf(a) < MonthOf(b)
    \/ YearOf(a) = YearOf(b) /\ MonthOf(a) = MonthOf(b)
          /\ DayOfMonth(a) <= DayOfMonth(b)

\* the day that follows a valid date
NextDay(t) ==
    IF DayOfMonth(t) < DaysIn(YearOf(t), MonthOf(t))
    THEN DateText(YearOf(t), MonthOf(t), DayOfMonth(t) + 1)
    ELSE IF MonthOf(t) < 12 THEN DateText(YearOf(t), MonthOf(t) + 1, 1)
    ELSE DateText(YearOf(t) + 1, 1, 1)

InWindow(r) == NotAfter(startDate, DayOf(r)) /\ NotAfter(DayOf(r), endDate)

RECURSIVE SumJobs(_)
SumJobs(rows) == IF rows = <<>> THEN 0 ELSE Head(rows).Jobs + SumJobs(Tail(rows))

\* a daily log without the rows whose NUM_SUBMITTED_REQUESTS is no integer
WithoutMalformed(log) ==
    IF log = <<>> THEN log
    ELSE <<Head(log)>> \o
         SelectSeq(Tail(log), LAMBDA l : AllDigits(l.NUM_SUBMITTED_REQUESTS))

Identity(n) == [i \in 1..n |-> i]

(***************************************************************************)
(* C1.  Join completeness: once the report is written, the USER_ID values  *)
(* of its rows are exactly the USER_ID values of the rows that passed the  *)
(* date filter, whatever the lookup table holds.                           *)
(***************************************************************************)
C1_JoinCompleteness ==
    ReportWritten => ReportUsers = UserIds(csvLogFileContentTrimmed)

\* a written report with a user the lookup table lacks, and a lookup row
\* of a user without a record in the window
C1_Witness ==
    /\ pc = "done"
    /\ \E u \in UserIds(csvLogFileContentTrimmed) :
          \A i \in 1..Len(lookupFile.lines) : lookupFile.lines[i].USER_ID # u
    /\ \E i \in 1..Len(lookupFile.lines) :
          lookupFile.lines[i].USER_ID \notin UserIds(csvLogFileContentTrimmed)

(***************************************************************************)
(* C2.  Every USER_ID of the aggregated metrics is on exactly one row of   *)
(* the report, and the report has as many rows as the metrics have users,  *)
(* also when the lookup table repeats a USER_ID.                           *)
(***************************************************************************)
C2_OneRowPerUser ==
    ReportWritten =>
        /\ Len(ReportRows) = Len(dfFinalReport)
        /\ \A k \in 1..Len(dfFinalReport) :
              Cardinality({i \in 1..Len(ReportRows) :
                  ReportRows[i].USER_ID = dfFinalReport[k].USER_ID}) = 1

(***************************************************************************)
(* C3.  With startDate and endDate valid dates, step 6 leaves exactly the  *)
(* rows whose day d has startDate <= d <= endDate in calendar order, in    *)
(* their order: both ends of the window are kept, the days next to them    *)
(* are not, and a window with startDate after endDate keeps nothing and    *)
(* raises nothing.                                                         *)
(***************************************************************************)
C3_DateWindow ==
    (Trimmed /\ ValidDate(startDate) /\ ValidDate(endDate)) =>
        /\ csvLogFileContentTrimmed.rows =
               SelectSeq(csvLogFileContent.rows, InWindow)
        /\ \A i \in 1..Len(csvLogFileContent.rows) :
              LET r == csvLogFileContent.rows[i]
                  kept == r \in SeqToSet(csvLogFileContentTrimmed.rows)
              IN  /\ DayOf(r) \in {startDate, endDate}
                        /\ NotAfter(startDate, endDate) => kept
                  /\ NextDay(DayOf(r)) = startDate => ~kept
                  /\ DayOf(r) = NextDay(endDate) => ~kept
        /\ ~NotAfter(startDate, endDate) => csvLogFileContentTrimmed.rows = <<>>

\* a one-day window: the row of that day is kept, the row of the day
\* before it is dropped
C3_Witness ==
    /\ pc = "aggregate"
    /\ startDate = SeptemberFirst /\ endDate = SeptemberFirst
    /\ \E i \in 1..Len(csvLogFileContent.rows) :
          DayOf(csvLogFileContent.rows[i]) = AugustLast
    /\ Len(csvLogFileContentTrimmed.rows) = 1
    /\ DayOf(csvLogFileContentTrimmed.rows[1]) = SeptemberFirst

(***************************************************************************)
(* C4.  On every row of the report Jobs is the number of filtered rows of  *)
(* the user (so at least 1), Total the sum of their                        *)
(* NUM_SUBMITTED_REQUESTS and Avg is Total / Jobs to the nearest tenth;    *)
(* and Jobs summed over the rows of the report is the number of filtered   *)
(* rows.                                                                   *)
(***************************************************************************)
C4_Metrics ==
    ReportWritten =>
        /\ \A i \in 1..Len(dfCPFUsage) :
              LET r == dfCPFUsage[i]
                  mine == RowsOf(csvLogFileContentTrimmed, r.USER_ID)
              IN  /\ r.Jobs = Len(mine)
                  /\ r.Jobs >= 1
                  /\ r.Total = SumRequests(mine)
                  /\ 2 * (r.Avg * r.Jobs - 10 * r.Total) <= r.Jobs
                  /\ 2 * (10 * r.Total - r.Avg * r.Jobs) <= r.Jobs
                  /\ ReportRows[i].Jobs = IntText(r.Jobs)
                  /\ ReportRows[i].Total = IntText(r.Total)
                  /\ ReportRows[i].Avg = FloatText(r.Avg)
        /\ SumJobs(dfCPFUsage) = Len(csvLogFileContentTrimmed.rows)

(***************************************************************************)
(* C5.  A row whose NUM_SUBMITTED_REQUESTS is not an integer is dropped    *)
(* without an error: astype never raises, and the report of a completed    *)
(* run is the report of the run on the same logs without those rows.       *)
(***************************************************************************)
C5_MalformedRowsDropped ==
    /\ error # "ValueError"
    /\ pc = "done" =>
          Outcome([i \in 1..Len(zipLogs) |-> WithoutMalformed(zipLogs[i])],
                  Identity(Len(zipLogs)), startDate, endDate, lookupFile)
            = [error |-> "none", lines |-> finalReport.lines]

(***************************************************************************)
(* C6.  When no row of csvLogFileContent is in the date window, also when  *)
(* it has no row at all, the script raises nothing, and the report it      *)
(* writes is the header line alone.  Stated for the runs whose startDate   *)
(* and endDate are valid dates.                                            *)
(***************************************************************************)
NoRowInWindow ==
    \A i \in 1..Len(csvLogFileContent.rows) :
        LET d == DayOf(csvLogFileContent.rows[i])
        IN  ~(StrGe(d, startDate) /\ StrLe(d, endDate))

C6_EmptyReport ==
    (ValidDate(startDate) /\ ValidDate(endDate) /\ NoRowInWindow) =>
        /\ pc = "failed" => error \notin {"IndexError", "ValueError"}
        /\ pc = "done" => finalReport.lines = <<ReportHeader>>

(***************************************************************************)
(* C7.  With a startDate or an endDate that is no YYYY-MM-DD date the run  *)
(* takes no processing step: nothing is extracted and no merged,           *)
(* converted or report file is written.                                    *)
(***************************************************************************)
C7_BadDatesAbort ==
    (~ValidDate(startDate) \/ ~ValidDate(endDate)) =>
        /\ pc \in {"unzip", "failed"}
        /\ ~zipLogFilesExtract.exists
        /\ ~mergedLogFile.exists
        /\ ~csvLogFile.exists
        /\ ~finalReport.exists

(***************************************************************************)
(* C8.  After a failed run finalReport.csv is either absent or the         *)
(* complete report of the run, never a part of it.  Stated for the runs    *)
(* whose startDate and endDate are valid dates.                            *)
(***************************************************************************)
C8_NoPartialReport ==
    (pc = "failed" /\ ValidDate(startDate) /\ ValidDate(endDate)) =>
        \/ ~finalReport.exists
        \/ finalReport.lines = ReportLines(dfCPFUsage)

(***************************************************************************)
(* C9.  Cleanup is best effort.  Whenever a cleanup statement is reached   *)
(* or has run, finalReport.csv holds the complete report; every step from  *)
(* a cleanup statement moves on towards 'Processing complete', never to a  *)
(* failed run, and leaves finalReport.csv as it is; and such a step always *)
(* exists.                                                                 *)
(***************************************************************************)
CleanupRank(p) ==
    CASE p = "rm_merged" -> 1
      [] p = "rm_csv" -> 2
      [] p = "rm_tree" -> 3
      [] p = "complete" -> 4
      [] p = "done" -> 5
      [] OTHER -> 0

InCleanup == pc \in {"rm_merged", "rm_csv", "rm_tree", "complete"}

\* a step that removes an intermediate artifact or prints the warning
CleanupStep ==
    \/ mergedLogFile.exists /\ ~mergedLogFile'.exists
    \/ csvLogFile.exists /\ ~csvLogFile'.exists
    \/ zipLogFilesExtract.exists /\ ~zipLogFilesExtract'.exists
    \/ ~warned /\ warned'

C9_CleanupBestEffort ==
    /\ [][CleanupStep =>
             /\ InCleanup
             /\ finalReport = File(ReportLines(dfCPFUsage))]_vars
    /\ [][InCleanup =>
             /\ CleanupRank(pc') > CleanupRank(pc)
             /\ finalReport' = finalReport]_vars
    /\ [](InCleanup => ENABLED Next)

\* the first cleanup statement failed: merged.tsv is still there, a warning
\* was printed, and the run printed 'Processing complete'
C9_Witness ==
    /\ pc = "done"
    /\ warned
    /\ mergedLogFile.exists
    /\ finalReport = File(ReportLines(dfCPFUsage))

(***************************************************************************)
(* C10.  The report to_csv has written does not depend on the order in     *)
(* which glob returned the daily logs: it is the report of the run for     *)
(* every order of the same logs, and its rows are in ascending USER_ID     *)
(* order.                                                                  *)
(***************************************************************************)
C10_OrderIndependent ==
    ReportJustWritten =>
        /\ \A order \in Orders(Len(zipLogs)) :
              Outcome(zipLogs, order, startDate, endDate, lookupFile)
                = [error |-> "none", lines |-> finalReport.lines]
        /\ \A i \in 1..(Len(ReportRows) - 1) :
              StrLe(ReportRows[i].USER_ID, ReportRows[i + 1].USER_ID)

\* two daily logs, the first with a row of u2 and the second with a row of
\* u1, and a report with a row for each
C10_Witness ==
    /\ ReportJustWritten
    /\ Len(zipLogs) = 2
    /\ \E i \in 2..Len(zipLogs[1]) : zipLogs[1][i].USER_ID = UserText(2)
    /\ \E i \in 2..Len(zipLogs[2]) : zipLogs[2][i].USER_ID = UserText(1)
    /\ {UserText(1), UserText(2)} \subseteq ReportUsers

====
